---- MODULE Spec2Model ----
(***************************************************************************)
(* SHA-256 of nicbk/sha-256 (src/src/lib.rs): the size check, pad_data     *)
(* byte by byte, block_hash round by round, the fold over the blocks in sha256, and the  *)
(* hex rendering of Sha256::to_string.                                     *)
(*                                                                         *)
(* A u32 is held as <<hi, lo>>, its two 16-bit halves, because TLC's       *)
(* integers are 32-bit signed and cannot hold 2^32 - 1.  A usize (64 bit)  *)
(* is held as four 16-bit limbs, most significant first.                   *)
(***************************************************************************)
EXTENDS Integers, Sequences, FiniteSets

VARIABLES pc, inp, blocks, block_num, block_pos, hash, k, i, w, wv, ret, out

vars == <<pc, inp, blocks, block_num, block_pos, hash, k, i, w, wv, ret, out>>

\* ------------------------------------------------------------------ bounds

\* Longest input whose bytes the model materialises (bytes).
MaxLen == 128

\* ------------------------------------------------------- 32-bit word algebra

Half == 2 ^ 16

Byte == 2 ^ 8

RECURSIVE BitOp(_, _, _, _)
\* Bit-by-bit evaluation of a two-operand bitwise operator on n-bit operands.
BitOp(op, x, y, n) ==
    IF n = 0 THEN 0
    ELSE (CASE op = "and" -> (x % 2) * (y % 2)
            [] op = "or"  -> IF (x % 2) + (y % 2) > 0 THEN 1 ELSE 0
            [] op = "xor" -> ((x % 2) + (y % 2)) % 2)
         + 2 * BitOp(op, x \div 2, y \div 2, n - 1)

\* The operators on bytes, tabulated once.
AndTab == [x \in 0..(Byte - 1) |-> [y \in 0..(Byte - 1) |-> BitOp("and", x, y, 8)]]

OrTab == [x \in 0..(Byte - 1) |-> [y \in 0..(Byte - 1) |-> BitOp("or", x, y, 8)]]

XorTab == [x \in 0..(Byte - 1) |-> [y \in 0..(Byte - 1) |-> BitOp("xor", x, y, 8)]]

And16(x, y) == AndTab[x \div Byte][y \div Byte] * Byte + AndTab[x % Byte][y % Byte]

Or16(x, y) == OrTab[x \div Byte][y \div Byte] * Byte + OrTab[x % Byte][y % Byte]

Xor16(x, y) == XorTab[x \div Byte][y \div Byte] * Byte + XorTab[x % Byte][y % Byte]

\* u32 & u32 (x & x = x is answered without the tables)
And(x, y) == IF x = y THEN x ELSE <<And16(x[1], y[1]), And16(x[2], y[2])>>

\* u32 | u32 (x | x = x is answered without the tables)
Or(x, y) == IF x = y THEN x ELSE <<Or16(x[1], y[1]), Or16(x[2], y[2])>>

\* u32 ^ u32 (x ^ x = 0 is answered without the tables)
Xor(x, y) == IF x = y THEN <<0, 0>> ELSE <<Xor16(x[1], y[1]), Xor16(x[2], y[2])>>

\* !u32
Not(x) == <<Half - 1 - x[1], Half - 1 - x[2]>>

\* u32 >> n (logical), 0 <= n < 32
Shr(x, n) ==
    IF n >= 16 THEN <<0, x[1] \div (2 ^ (n - 16))>>
    ELSE <<x[1] \div (2 ^ n),
           ((x[1] % (2 ^ n)) * (2 ^ (16 - n)) + x[2] \div (2 ^ n)) % Half>>

\* u32 << n, 0 <= n < 32: the bits shifted past bit 31 are dropped
Shl(x, n) ==
    IF n >= 16 THEN <<(x[2] * (2 ^ (n - 16))) % Half, 0>>
    ELSE <<(x[1] * (2 ^ n) + (x[2] * (2 ^ n)) \div Half) % Half,
           (x[2] * (2 ^ n)) % Half>>

\* u32::rotate_right(n), 0 < n < 32
RotateRight(x, n) == Or(Shr(x, n), Shl(x, 32 - n))

\* A sum that is not reduced modulo 2^32: what `+` on u32 would have to hold
\* where the code's Wrapping<u32> wraps.
UncheckedAdd(x, y) ==
    LET lo == x[2] + y[2]
    IN  <<x[1] + y[1] + lo \div Half, lo % Half>>

\* Wrapping<u32> + Wrapping<u32>: the sum modulo 2^32
WrappingAdd(x, y) ==
    LET lo == x[2] + y[2]
    IN  <<(x[1] + y[1] + lo \div Half) % Half, lo % Half>>

\* `n as u32` of a small non-negative integer
U32(n) == <<(n \div Half) % Half, n % Half>>

Zero == <<0, 0>>

\* ---------------------------------------------------------------- constants

\* SHA256_CONST
SHA256_CONST == <<
    <<\h428a, \h2f98>>, <<\h7137, \h4491>>, <<\hb5c0, \hfbcf>>, <<\he9b5, \hdba5>>, <<\h3956, \hc25b>>, <<\h59f1, \h11f1>>, <<\h923f, \h82a4>>, <<\hab1c, \h5ed5>>,
    <<\hd807, \haa98>>, <<\h1283, \h5b01>>, <<\h2431, \h85be>>, <<\h550c, \h7dc3>>, <<\h72be, \h5d74>>, <<\h80de, \hb1fe>>, <<\h9bdc, \h06a7>>, <<\hc19b, \hf174>>,
    <<\he49b, \h69c1>>, <<\hefbe, \h4786>>, <<\h0fc1, \h9dc6>>, <<\h240c, \ha1cc>>, <<\h2de9, \h2c6f>>, <<\h4a74, \h84aa>>, <<\h5cb0, \ha9dc>>, <<\h76f9, \h88da>>,
    <<\h983e, \h5152>>, <<\ha831, \hc66d>>, <<\hb003, \h27c8>>, <<\hbf59, \h7fc7>>, <<\hc6e0, \h0bf3>>, <<\hd5a7, \h9147>>, <<\h06ca, \h6351>>, <<\h1429, \h2967>>,
    <<\h27b7, \h0a85>>, <<\h2e1b, \h2138>>, <<\h4d2c, \h6dfc>>, <<\h5338, \h0d13>>, <<\h650a, \h7354>>, <<\h766a, \h0abb>>, <<\h81c2, \hc92e>>, <<\h9272, \h2c85>>,
    <<\ha2bf, \he8a1>>, <<\ha81a, \h664b>>, <<\hc24b, \h8b70>>, <<\hc76c, \h51a3>>, <<\hd192, \he819>>, <<\hd699, \h0624>>, <<\hf40e, \h3585>>, <<\h106a, \ha070>>,
    <<\h19a4, \hc116>>, <<\h1e37, \h6c08>>, <<\h2748, \h774c>>, <<\h34b0, \hbcb5>>, <<\h391c, \h0cb3>>, <<\h4ed8, \haa4a>>, <<\h5b9c, \hca4f>>, <<\h682e, \h6ff3>>,
    <<\h748f, \h82ee>>, <<\h78a5, \h636f>>, <<\h84c8, \h7814>>, <<\h8cc7, \h0208>>, <<\h90be, \hfffa>>, <<\ha450, \h6ceb>>, <<\hbef9, \ha3f7>>, <<\hc671, \h78f2>>
>>

\* The initial hash values of sha256
InitialHash == <<
    <<\h6a09, \he667>>, <<\hbb67, \hae85>>, <<\h3c6e, \hf372>>, <<\ha54f, \hf53a>>,
    <<\h510e, \h527f>>, <<\h9b05, \h688c>>, <<\h1f83, \hd9ab>>, <<\h5be0, \hcd19>>
>>

\* ------------------------------------------------- the six logical functions

ch(x, y, z) == Xor(And(x, y), And(Not(x), z))

maj(x, y, z) == Xor(Xor(And(x, y), And(x, z)), And(y, z))

big_sigma_zero(x) == Xor(Xor(RotateRight(x, 2), RotateRight(x, 13)), RotateRight(x, 22))

big_sigma_one(x) == Xor(Xor(RotateRight(x, 6), RotateRight(x, 11)), RotateRight(x, 25))

little_sigma_zero(x) == Xor(Xor(RotateRight(x, 7), RotateRight(x, 18)), Shr(x, 3))

little_sigma_one(x) == Xor(Xor(RotateRight(x, 17), RotateRight(x, 19)), Shr(x, 10))

\* -------------------------------------------------------------------- input

\* A usize as four 16-bit limbs, most significant first.
Usize(n) == <<0, 0, 0, n>>

\* usize > usize
Gt64(x, y) ==
    \/ x[1] > y[1]
    \/ x[1] = y[1] /\ x[2] > y[2]
    \/ x[1] = y[1] /\ x[2] = y[2] /\ x[3] > y[3]
    \/ x[1] = y[1] /\ x[2] = y[2] /\ x[3] = y[3] /\ x[4] > y[4]

\* 1 << 58, as limbs: 2^58 = 2^10 * 2^48
DataLimit == <<2 ^ 10, 0, 0, 0>>

\* b"Hello, world!"
Hello == <<72, 101, 108, 108, 111, 44, 32, 119, 111, 114, 108, 100, 33>>

\* The byte contents the inputs are drawn from: the test string repeated, and
\* all bits set.
Patterns == {"hello", "ff"}

\* inp[idx], idx counted from 0
InpByte(input, idx) ==
    IF input.pat = "hello" THEN Hello[(idx % Len(Hello)) + 1] ELSE Byte - 1

\* Slice lengths too large to materialise, around the limit of the size check.
HugeLens == {
    <<2 ^ 10, 0, 0, 0>>, <<2 ^ 10, 0, 0, 1>>, <<2 ^ 10 - 1, Half - 1, Half - 1, Half - 1>>,
    <<2 ^ 10, 0, 1, 0>>, <<2 ^ 10 + 1, 0, 0, 0>>, <<Half - 1, Half - 1, Half - 1, Half - 1>>,
    <<0, 1, 0, 0>>, <<1, 0, 0, 0>>, <<0, Half - 1, Half - 1, Half - 1>> }

Inputs ==
    [len : {Usize(n) : n \in 0..MaxLen}, pat : Patterns]
        \cup [len : HugeLens, pat : {"ff"}]

\* Whether the model holds the bytes of the input.
Materialised(input) ==
    /\ input.len[1] = 0 /\ input.len[2] = 0 /\ input.len[3] = 0
    /\ input.len[4] <= MaxLen

\* inp.len() of a materialised input
InpLen(input) == input.len[4]

\* ------------------------------------------------------------------ pad_data

Max(x, y) == IF x >= y THEN x ELSE y

RECURSIVE BitLen(_)
BitLen(n) == IF n = 0 THEN 0 ELSE 1 + BitLen(n \div 2)

\* `n as f32` for 0 <= n < 2^30: exact up to 24 significant bits, beyond that
\* rounded to the nearest value of 24 significant bits, ties to even.
F32(n) ==
    IF BitLen(n) <= 24 THEN n
    ELSE LET ulp == 2 ^ (BitLen(n) - 24)
             q   == n \div ulp
             r   == n % ulp
         IN  IF 2 * r > ulp \/ (2 * r = ulp /\ q % 2 = 1) THEN (q + 1) * ulp
             ELSE q * ulp

\* (x / d).ceil() as usize for a float x holding an integer.  For d = 512 the
\* division by a power of two is exact.
CeilDiv(x, d) == (x + d - 1) \div d

\* (x / d).floor() as usize for a float x holding an integer.  Exact for the
\* powers of two 64 and 4; for d = 448 and 0 <= x < 512 the rounded quotient
\* lies on the same side of 1 as the exact one.
FloorDiv(x, d) == x \div d

\* num_blocks
NumBlocks(len_inp_bits) ==
    Max(CeilDiv(F32(len_inp_bits), 512) + FloorDiv(F32(len_inp_bits % 512), 448), 1)

\* [0_u32; 16]
ZeroBlock == <<Zero, Zero, Zero, Zero, Zero, Zero, Zero, Zero,
               Zero, Zero, Zero, Zero, Zero, Zero, Zero, Zero>>

RECURSIVE ZeroBlocks(_)
\* vec![[0_u32; 16]; num_blocks]
ZeroBlocks(num_blocks) ==
    IF num_blocks <= 0 THEN <<>> ELSE Append(ZeroBlocks(num_blocks - 1), ZeroBlock)

\* blocks[block_num][block_pos] |= (*x as u32) << 24 - (i % 4 * 8)
OrByteInto(bs, bn, bp, x, idx) ==
    [bs EXCEPT ![bn + 1][bp + 1] = Or(@, Shl(U32(x), 24 - ((idx % 4) * 8)))]

\* pad_data after its loop (lines 111-133), given the blocks, block_num and
\* block_pos the loop left: [panic |-> TRUE] when the delimiter's block is out
\* of range, else the blocks with the delimiter and the size signature.
PadMarked(bs, bn, bp, len) ==
    LET len_inp_bits == len * 8
        num_blocks   == Len(bs)
        final_u32    == len % 4
        adjust       == final_u32 = 0 /\ len_inp_bits # 0
        bn2          == IF adjust /\ bp = 15 THEN bn + 1 ELSE bn
        bp2          == IF adjust THEN (IF bp = 15 THEN 0 ELSE bp + 1) ELSE bp
    IN  IF bn2 >= num_blocks
        THEN [panic |-> TRUE, blocks |-> bs]
        ELSE [panic |-> FALSE,
              blocks |-> [OrByteInto(bs, bn2, bp2, 128, final_u32) EXCEPT
                            ![num_blocks][16] = U32(len_inp_bits),
                            ![num_blocks][15] = U32((len_inp_bits \div Half) \div Half)]]

\* ---------------------------------------------------------------- block_hash

\* w[idx], idx counted from 0
At(seq, idx) == seq[idx + 1]

\* The schedule word with the two little sigmas exchanged.
ScheduleWordSwapped(sched, block, r) ==
    IF r < 16 THEN At(block, r)
    ELSE WrappingAdd(WrappingAdd(WrappingAdd(little_sigma_zero(At(sched, r - 2)),
                                             At(sched, r - 7)),
                                 little_sigma_one(At(sched, r - 15))),
                     At(sched, r - 16))

\* The message schedule word of round r (lines 154-159)
ScheduleWord(sched, block, r) ==
    IF r < 16 THEN At(block, r)
    ELSE WrappingAdd(WrappingAdd(WrappingAdd(little_sigma_one(At(sched, r - 2)),
                                             At(sched, r - 7)),
                                 little_sigma_zero(At(sched, r - 15))),
                     At(sched, r - 16))

\* t_one of round r, given the schedule word of the round
TOne(v, r, wr) ==
    WrappingAdd(WrappingAdd(WrappingAdd(WrappingAdd(v.h, big_sigma_one(v.e)),
                                        ch(v.e, v.f, v.g)),
                            At(SHA256_CONST, r)),
                wr)

\* t_two
TTwo(v) == WrappingAdd(big_sigma_zero(v.a), maj(v.a, v.b, v.c))

\* The working variables after one round
RoundVars(v, t_one, t_two) ==
    [h |-> v.g, g |-> v.f, f |-> v.e, e |-> WrappingAdd(v.d, t_one),
     d |-> v.c, c |-> v.b, b |-> v.a, a |-> WrappingAdd(t_one, t_two)]

\* The working variables seeded from the hash
SeedVars(hs) ==
    [a |-> hs[1], b |-> hs[2], c |-> hs[3], d |-> hs[4],
     e |-> hs[5], f |-> hs[6], g |-> hs[7], h |-> hs[8]]

\* hash[n] = hash[n] + working variable n, wrapping
FoldBack(hs, v) ==
    <<WrappingAdd(hs[1], v.a), WrappingAdd(hs[2], v.b),
      WrappingAdd(hs[3], v.c), WrappingAdd(hs[4], v.d),
      WrappingAdd(hs[5], v.e), WrappingAdd(hs[6], v.f),
      WrappingAdd(hs[7], v.g), WrappingAdd(hs[8], v.h)>>

\* ----------------------------------------------------------------- to_string

HexDigits == <<"0", "1", "2", "3", "4", "5", "6", "7",
               "8", "9", "a", "b", "c", "d", "e", "f">>

RECURSIVE LowerHex(_)
\* {:x} of a 16-bit value: its hex digits, no leading zeros, "0" for zero
LowerHex(n) ==
    IF n < 16 THEN <<HexDigits[n + 1]>>
    ELSE Append(LowerHex(n \div 16), HexDigits[(n % 16) + 1])

RECURSIVE PadLeft(_, _)
\* the fill of a width: "0"s in front up to the width, nothing cut
PadLeft(digits, width) ==
    IF Len(digits) >= width THEN digits ELSE PadLeft(<<"0">> \o digits, width)

\* {:x} of a u32
LowerHex32(x) ==
    IF x[1] = 0 THEN LowerHex(x[2]) ELSE LowerHex(x[1]) \o PadLeft(LowerHex(x[2]), 4)

\* {:x} of a u32: no width, no fill
FmtX(x) == LowerHex32(x)

\* {:08x} of a u32
Fmt08x(x) == PadLeft(LowerHex32(x), 8)

\* Sha256::to_string
to_string(hs) ==
    Fmt08x(hs[1]) \o Fmt08x(hs[2]) \o Fmt08x(hs[3]) \o Fmt08x(hs[4]) \o
    Fmt08x(hs[5]) \o Fmt08x(hs[6]) \o Fmt08x(hs[7]) \o Fmt08x(hs[8])

\* ---------------------------------------------------------- the state machine

None == [tag |-> "None"]

NoVars == [a |-> Zero, b |-> Zero, c |-> Zero, d |-> Zero,
           e |-> Zero, f |-> Zero, g |-> Zero, h |-> Zero]

Init ==
    /\ pc = "start"
    /\ inp \in Inputs
    /\ blocks = <<>>
    /\ block_num = 0
    /\ block_pos = 0
    /\ hash = <<>>
    /\ k = 0
    /\ i = 0
    /\ w = <<>>
    /\ wv = NoVars
    /\ ret = None
    /\ out = <<>>

\* inp.len() >= 1 << 58
TooLargeAtLimit(input) == ~Gt64(DataLimit, input.len)

\* inp.len() > 1 << 58
TooLarge(input) == Gt64(input.len, DataLimit)

\* sha256, lines 51-53: the size check
SizeCheck ==
    /\ pc = "start"
    /\ IF TooLarge(inp)
       THEN /\ pc' = "err"
            /\ ret' = [tag |-> "Err", err |-> "DataTooLarge"]
       ELSE /\ pc' = "pad"
            /\ ret' = ret
    /\ UNCHANGED <<inp, blocks, block_num, block_pos, hash, k, i, w, wv, out>>

\* sha256 line 55 and pad_data lines 82-97: the blocks are allocated, zeroed
PadAlloc ==
    /\ pc = "pad"
    /\ Materialised(inp)
    /\ blocks' = ZeroBlocks(NumBlocks(InpLen(inp) * 8))
    /\ block_num' = 0
    /\ block_pos' = 0
    /\ i' = 0
    /\ pc' = "fill"
    /\ UNCHANGED <<inp, hash, k, w, wv, ret, out>>

\* pad_data lines 99-108: one pass of the loop, for inp[i].  An index out of
\* range panics and ends the call.
PadByte ==
    /\ pc = "fill"
    /\ i < InpLen(inp)
    /\ block_num' = FloorDiv(F32(i), 64)
    /\ block_pos' = FloorDiv(F32(i % 64), 4)
    /\ IF block_num' >= Len(blocks)
       THEN /\ pc' = "panic"
            /\ UNCHANGED <<blocks, i>>
       ELSE /\ blocks' = OrByteInto(blocks, block_num', block_pos', InpByte(inp, i), i)
            /\ i' = i + 1
            /\ pc' = pc
    /\ UNCHANGED <<inp, hash, k, w, wv, ret, out>>

\* pad_data lines 111-133, then sha256 lines 58-67: the delimiter and the size
\* signature are written and the blocks returned; the hash takes its initial
\* values.  A delimiter block out of range panics and ends the call.
PadMark ==
    /\ pc = "fill"
    /\ i >= InpLen(inp)
    /\ LET marked == PadMarked(blocks, block_num, block_pos, InpLen(inp))
       IN  IF marked.panic
           THEN /\ pc' = "panic"
                /\ UNCHANGED <<blocks, hash, k>>
           ELSE /\ pc' = "iter"
                /\ blocks' = marked.blocks
                /\ hash' = InitialHash
                /\ k' = 1
    /\ UNCHANGED <<inp, block_num, block_pos, i, w, wv, ret, out>>

\* The blocks taken from the last to the first.
NextBlockReversed(bs, n) == bs[Len(bs) + 1 - n]

\* The block the iterator of sha256 yields next
NextBlock(bs, n) == bs[n]

\* sha256 line 69-70 and block_hash lines 141-150: the next block is taken, the
\* schedule zeroed and the working variables seeded
BlockEntry ==
    /\ pc = "iter"
    /\ k <= Len(blocks)
    /\ w' = ZeroBlock \o ZeroBlock \o ZeroBlock \o ZeroBlock
    /\ wv' = SeedVars(hash)
    /\ i' = 0
    /\ pc' = "round"
    /\ UNCHANGED <<inp, blocks, block_num, block_pos, hash, k, ret, out>>

\* block_hash lines 153-175: one round
Round ==
    /\ pc = "round"
    /\ i < 64
    /\ LET wr    == ScheduleWord(w, NextBlock(blocks, k), i)
           t_one == TOne(wv, i, wr)
           t_two == TTwo(wv)
       IN  /\ w' = [w EXCEPT ![i + 1] = wr]
           /\ wv' = RoundVars(wv, t_one, t_two)
    /\ i' = i + 1
    /\ UNCHANGED <<pc, inp, blocks, block_num, block_pos, hash, k, ret, out>>

\* block_hash lines 178-185, and the iterator of sha256 moving on
BlockExit ==
    /\ pc = "round"
    /\ i = 64
    /\ hash' = FoldBack(hash, wv)
    /\ k' = k + 1
    /\ pc' = "iter"
    /\ UNCHANGED <<inp, blocks, block_num, block_pos, i, w, wv, ret, out>>

\* sha256 line 73 and Sha256::new: the hash is returned
Return ==
    /\ pc = "iter"
    /\ k > Len(blocks)
    /\ ret' = [tag |-> "Ok", hash |-> hash]
    /\ pc' = "done"
    /\ UNCHANGED <<inp, blocks, block_num, block_pos, hash, k, i, w, wv, out>>

\* Sha256::to_string on the value returned
Render ==
    /\ pc = "done"
    /\ out' = to_string(ret.hash)
    /\ pc' = "str"
    /\ UNCHANGED <<inp, blocks, block_num, block_pos, hash, k, i, w, wv, ret>>

Next ==
    \/ SizeCheck
    \/ PadAlloc
    \/ PadByte
    \/ PadMark
    \/ BlockEntry
    \/ Round
    \/ BlockExit
    \/ Return
    \/ Render

Spec == Init /\ [][Next]_vars

\* Sha256::to_string as a function of any 8-word state: the struct is built
\* with the state given, then rendered.
FmtWords == {Zero, <<0, \h000a>>, <<\h00ab, \hcdef>>, <<\h1000, \h0001>>, <<Half - 1, Half - 1>>}

InitFmt ==
    /\ pc = "done"
    /\ inp = [len |-> Usize(0), pat |-> "ff"]
    /\ blocks = <<>>
    /\ block_num = 0
    /\ block_pos = 0
    /\ hash = <<>>
    /\ k = 0
    /\ i = 0
    /\ w = <<>>
    /\ wv = NoVars
    /\ \E p \in 1..8 : \E x \in FmtWords : \E y \in FmtWords :
          ret = [tag |-> "Ok", hash |-> [n \in 1..8 |-> IF n = p THEN x ELSE y]]
    /\ out = <<>>

SpecFmt == InitFmt /\ [][Render]_vars

\* ------------------------------------------------- what the claims refer to

\* The input's byte length exceeds 2^58.
Exceeds2p58(len) ==
    \/ len[1] > 1024
    \/ len[1] = 1024 /\ (len[2] > 0 \/ len[3] > 0 \/ len[4] > 0)

\* pad_data has been called and has ended, one way or the other.
AfterPad == pc = "panic" \/ (pc = "iter" /\ k = 1)

\* Byte p (0 the most significant) of a word.
WordByte(x, p) ==
    CASE p = 0 -> x[1] \div 256
      [] p = 1 -> x[1] % 256
      [] p = 2 -> x[2] \div 256
      [] p = 3 -> x[2] % 256

\* Byte j (from 0) of the big-endian concatenation of the blocks.
PaddedByte(bs, j) == WordByte(bs[(j \div 64) + 1][((j % 64) \div 4) + 1], j % 4)

\* Byte m (0 the least significant) of the 64-bit value v < 2^31.
LenByte(v, m) == IF m >= 4 THEN 0 ELSE (v \div (256 ^ m)) % 256

\* Byte j of the FIPS 180-4 padding of the input into n blocks: the message,
\* 0x80, zeros, the bit length as 64 bits big-endian.
ExpectedByte(input, n, j) ==
    IF j < InpLen(input) THEN InpByte(input, j)
    ELSE IF j = InpLen(input) THEN 128
    ELSE IF j < 64 * n - 8 THEN 0
    ELSE LenByte(8 * InpLen(input), 64 * n - 1 - j)

\* The least n with 64 n >= L + 1 + 8.
ExpectedBlocks(input) == (InpLen(input) + 9 + 63) \div 64

\* The FIPS 180-4 padding, block by block.
ExpectedPadding(input) ==
    LET n == ExpectedBlocks(input)
        wordAt(q) == <<ExpectedByte(input, n, 4 * q) * 256 + ExpectedByte(input, n, 4 * q + 1),
                       ExpectedByte(input, n, 4 * q + 2) * 256 + ExpectedByte(input, n, 4 * q + 3)>>
    IN  [b \in 1..n |-> [p \in 1..16 |-> wordAt(16 * (b - 1) + (p - 1))]]

\* The compression function as the specification words it: the whole schedule
\* first, then 64 rounds, then the sum into the state.
SpAdd(x, y) == <<(x[1] + y[1] + (x[2] + y[2]) \div 65536) % 65536, (x[2] + y[2]) % 65536>>

SpCh(x, y, z) == Xor(And(x, y), And(Not(x), z))

SpMaj(x, y, z) == Xor(Xor(And(x, y), And(x, z)), And(y, z))

SpBigSigma0(x) == Xor(Xor(RotateRight(x, 2), RotateRight(x, 13)), RotateRight(x, 22))

SpBigSigma1(x) == Xor(Xor(RotateRight(x, 6), RotateRight(x, 11)), RotateRight(x, 25))

SpLittleSigma0(x) == Xor(Xor(RotateRight(x, 7), RotateRight(x, 18)), Shr(x, 3))

SpLittleSigma1(x) == Xor(Xor(RotateRight(x, 17), RotateRight(x, 19)), Shr(x, 10))

\* The sum of four words modulo 2^32.
SpAdd4(x, y, z, u) ==
    <<(x[1] + y[1] + z[1] + u[1] + (x[2] + y[2] + z[2] + u[2]) \div 65536) % 65536,
      (x[2] + y[2] + z[2] + u[2]) % 65536>>

\* The sum of five words modulo 2^32.
SpAdd5(x, y, z, u, v) ==
    <<(x[1] + y[1] + z[1] + u[1] + v[1]
          + (x[2] + y[2] + z[2] + u[2] + v[2]) \div 65536) % 65536,
      (x[2] + y[2] + z[2] + u[2] + v[2]) % 65536>>

\* The schedule grown by the word of index t = Len(ws):
\* littleSigma1(w[t-2]) + w[t-7] + littleSigma0(w[t-15]) + w[t-16].
SpNextWord(ws) ==
    Append(ws, SpAdd4(SpLittleSigma1(ws[Len(ws) - 2 + 1]), ws[Len(ws) - 7 + 1],
                      SpLittleSigma0(ws[Len(ws) - 15 + 1]), ws[Len(ws) - 16 + 1]))

RECURSIVE SpExtend(_, _)
\* The schedule grown by n words, up to 64 in all.  The count is halved, and
\* Len(ws) read first, so that the evaluation stays shallow.
SpExtend(ws, n) ==
    CASE Len(ws) >= 64 \/ n <= 0 -> ws
      [] Len(ws) < 64 /\ n = 1 -> SpNextWord(ws)
      [] OTHER -> SpExtend(SpExtend(ws, n \div 2), n - (n \div 2))

\* The 64-word schedule grown from the 16 words of the block.
SpSchedule(block) == SpExtend(block, 48)

\* Round r on v = <<a, b, c, d, e, f, g, h>>:
\* t1 = h + bigSigma1(e) + Ch(e,f,g) + K[r] + w[r], t2 = bigSigma0(a) + Maj(a,b,c).
SpRound(v, ws, r) ==
    <<SpAdd(SpAdd5(v[8], SpBigSigma1(v[5]), SpCh(v[5], v[6], v[7]), SHA256_CONST[r + 1], ws[r + 1]),
            SpAdd(SpBigSigma0(v[1]), SpMaj(v[1], v[2], v[3]))),
      v[1], v[2], v[3],
      SpAdd(v[4], SpAdd5(v[8], SpBigSigma1(v[5]), SpCh(v[5], v[6], v[7]), SHA256_CONST[r + 1], ws[r + 1])),
      v[5], v[6], v[7]>>

RECURSIVE SpRounds(_, _, _, _)
\* Rounds lo .. hi - 1 in order.  The range is halved, and Len(v) read first,
\* so that the evaluation stays shallow.
SpRounds(v, ws, lo, hi) ==
    CASE Len(v) # 8 \/ hi <= lo -> v
      [] Len(v) = 8 /\ hi = lo + 1 -> SpRound(v, ws, lo)
      [] OTHER -> SpRounds(SpRounds(v, ws, lo, (lo + hi) \div 2), ws, (lo + hi) \div 2, hi)

\* The state after the block: the schedule, the 64 rounds from the state, and
\* the sum of the two word by word.
SpFolded(hs, v) ==
    <<SpAdd(hs[1], v[1]), SpAdd(hs[2], v[2]), SpAdd(hs[3], v[3]), SpAdd(hs[4], v[4]),
      SpAdd(hs[5], v[5]), SpAdd(hs[6], v[6]), SpAdd(hs[7], v[7]), SpAdd(hs[8], v[8])>>

SpRun(hs, ws) == IF Len(ws) # 64 THEN <<>> ELSE SpFolded(hs, SpRounds(hs, ws, 0, 64))

SpCompress(hs, block) == SpRun(hs, SpSchedule(block))

\* The fixed initial state, as the claim lists it.
FixedInitialState == <<
    <<\h6a09, \he667>>, <<\hbb67, \hae85>>, <<\h3c6e, \hf372>>, <<\ha54f, \hf53a>>,
    <<\h510e, \h527f>>, <<\h9b05, \h688c>>, <<\h1f83, \hd9ab>>, <<\h5be0, \hcd19>> >>

RECURSIVE SpFold(_, _, _)
\* The blocks from the n-th on compressed in order, each from the state the
\* one before left.
SpFold(hs, bs, n) ==
    IF Len(hs) # 8 \/ n > Len(bs) THEN hs ELSE SpFold(SpCompress(hs, bs[n]), bs, n + 1)

\* The FIPS 180-4 digest of the input.
ExpectedDigest(input) == SpFold(FixedInitialState, ExpectedPadding(input), 1)

\* Hex digit q (0 the most significant of 8) of a word.
Nibble(x, q) == IF q < 4 THEN (x[1] \div (16 ^ (3 - q))) % 16 ELSE (x[2] \div (16 ^ (7 - q))) % 16

\* The 64 hex digits of an 8-word state, word 0 and most significant digit first.
ExpectedHex(hs) == [c \in 1..64 |-> HexDigits[Nibble(hs[((c - 1) \div 8) + 1], (c - 1) % 8) + 1]]

RECURSIVE Join(_)
\* The characters as one string.
Join(chars) ==
    IF Len(chars) = 0 THEN ""
    ELSE IF Len(chars) = 1 THEN chars[1]
    ELSE Join(SubSeq(chars, 1, Len(chars) \div 2))
            \o Join(SubSeq(chars, (Len(chars) \div 2) + 1, Len(chars)))

\* ------------------------------------------------------------------- claims

\* C1: DataTooLarge is the only failure of Sha256::new: a call never panics
\* on an index out of range, and an error is only ever DataTooLarge for an
\* input longer than 2^58 bytes.
C1_OnlyDataTooLarge ==
    /\ pc # "panic"
    /\ ret.tag = "Err" => (ret.err = "DataTooLarge" /\ Exceeds2p58(inp.len))

\* The inputs of the model on which pad_data indexes a block it did not
\* allocate: a non-zero multiple of 64 bytes.
PanicsOnlyOnFullBlocks ==
    pc = "panic" <=> (AfterPad /\ InpLen(inp) > 0 /\ InpLen(inp) % 64 = 0)

\* C2: for every input within the size bound the call ends with a digest and
\* its rendering is the hex of the FIPS 180-4 digest; the empty input and
\* "Hello, world!" give the two published strings.
C2_DigestIsFips ==
    /\ pc # "panic"
    /\ pc = "str" =>
        /\ out = ExpectedHex(ExpectedDigest(inp))
        /\ InpLen(inp) = 0 =>
             Join(out) = "e3b0c44298fc1c149afbf4c8996fb92427ae41e4649b934ca495991b7852b855"
        /\ (InpLen(inp) = 13 /\ inp.pat = "hello") =>
             Join(out) = "315f5bdb76d078c43b8ac0064e4a0164612b1fce77c869345bfc94c75894edd3"

\* Where the call does return, the rendering is the hex of the FIPS digest.
DigestIsFipsWhenReturned ==
    pc = "str" =>
        /\ out = ExpectedHex(ExpectedDigest(inp))
        /\ InpLen(inp) = 0 =>
             Join(out) = "e3b0c44298fc1c149afbf4c8996fb92427ae41e4649b934ca495991b7852b855"
        /\ (InpLen(inp) = 13 /\ inp.pat = "hello") =>
             Join(out) = "315f5bdb76d078c43b8ac0064e4a0164612b1fce77c869345bfc94c75894edd3"

\* C3: pad_data returns, for any input of L bytes, a non-empty sequence of
\* 16-word blocks that reads big-endian as the L input bytes, 0x80, zeros, and
\* 8 L as 64 bits in words 14 and 15 of the last block.
C3_PaddingLayout ==
    AfterPad =>
        /\ pc # "panic"
        /\ Len(blocks) >= 1
        /\ \A b \in 1..Len(blocks) : Len(blocks[b]) = 16
        /\ InpLen(inp) + 9 <= 64 * Len(blocks)
        /\ \A j \in 0..(64 * Len(blocks) - 1) :
              PaddedByte(blocks, j) = ExpectedByte(inp, Len(blocks), j)
        /\ blocks[Len(blocks)][15] = Zero
        /\ blocks[Len(blocks)][16] = <<0, 8 * InpLen(inp)>>

\* Where pad_data returns, its blocks are the FIPS padding.
PaddingLayoutWhenReturned ==
    (pc = "iter" /\ k = 1) => blocks = ExpectedPadding(inp)

\* C4: an L-byte input yields the least number of blocks whose 64 n bytes hold
\* the message, the delimiter byte and the 8-byte length: 55 bytes give 1,
\* 56 and 64 give 2, 119 gives 2, 120 gives 3.
C4_BlockCount ==
    pc \notin {"start", "pad", "err"} =>
        /\ pc # "panic"
        /\ Len(blocks) = ExpectedBlocks(inp)

\* num_blocks is one short exactly at the non-zero multiples of 64 bytes.
NumBlocksShortOnlyOnFullBlocks ==
    Materialised(inp) =>
        NumBlocks(8 * InpLen(inp)) =
            IF InpLen(inp) > 0 /\ InpLen(inp) % 64 = 0
            THEN ExpectedBlocks(inp) - 1 ELSE ExpectedBlocks(inp)

\* C8: the delimiter 0x80 is the byte right after the last input byte: the
\* empty input gives one block 0x80000000, 0, ..., 0; after a non-zero
\* multiple of 4 bytes it is the top byte of the next word (word 0 of the next
\* block after word 15); otherwise it is byte L mod 4 of the last input word.
C8_DelimiterPosition ==
    AfterPad =>
        LET L   == InpLen(inp)
            blk == (L \div 4) \div 16
            pos == (L \div 4) % 16
        IN  /\ pc # "panic"
            /\ L = 0 => blocks = << [p \in 1..16 |-> IF p = 1 THEN <<\h8000, 0>> ELSE Zero] >>
            /\ blk < Len(blocks)
            /\ WordByte(blocks[blk + 1][pos + 1], L % 4) = 128
            /\ \A q \in 0..3 :
                  /\ q > L % 4 => WordByte(blocks[blk + 1][pos + 1], q) = 0
                  /\ q < L % 4 => WordByte(blocks[blk + 1][pos + 1], q) = InpByte(inp, L - (L % 4) + q)

C6_ToStringLayout ==
    pc = "str" =>
        /\ Len(out) = 64
        /\ \A c \in 1..64 : \E d \in 1..16 : out[c] = HexDigits[d]
        /\ out = ExpectedHex(ret.hash)

\* A state whose word 0 is 0x0000000a has been rendered, zeros kept.
C6_ZeroPadded ==
    /\ pc = "str"
    /\ ret.hash[1] = <<0, 10>>
    /\ SubSeq(out, 1, 8) = <<"0", "0", "0", "0", "0", "0", "0", "a">>

IsU32(x) == Len(x) = 2 /\ x[1] \in 0..65535 /\ x[2] \in 0..65535

\* C7: the running state has exactly 8 words, and every word of the state, of
\* the working variables and of the schedule is within 0 .. 2^32 - 1 after
\* every round and every block; the digest returned is 8 such words.
C7_WordsStayU32 ==
    /\ hash # <<>> => (Len(hash) = 8 /\ \A n \in 1..8 : IsU32(hash[n]))
    /\ IsU32(wv.a) /\ IsU32(wv.b) /\ IsU32(wv.c) /\ IsU32(wv.d)
    /\ IsU32(wv.e) /\ IsU32(wv.f) /\ IsU32(wv.g) /\ IsU32(wv.h)
    /\ \A n \in 1..Len(w) : IsU32(w[n])
    /\ ret.tag = "Ok" => (Len(ret.hash) = 8 /\ \A n \in 1..8 : IsU32(ret.hash[n]))
    /\ pc = "str" => Len(out) = 64

\* The first block has been folded in and word 0 of the state is below its
\* initial value: the sum passed 2^32 and wrapped.
C7_Wrapped == pc = "iter" /\ k = 2 /\ hash[1][1] < FixedInitialState[1][1]

\* C9: block_hash, which computes w[i] inside round i, leaves the state equal
\* to the compression as specified (the whole schedule, then 64 rounds, then
\* the sum into the state, all modulo 2^32) and leaves the block unchanged.
C9_BlockHashIsCompression ==
    [][(pc = "round" /\ pc' = "iter") =>
          (hash' = SpCompress(hash, blocks[k]) /\ blocks' = blocks)]_vars

\* The second block of an input has been compressed.
C9_SecondBlockDone == pc = "iter" /\ k = 3 /\ hash # FixedInitialState

\* C10: sha256 starts from the fixed initial state, pads once, compresses the
\* blocks once each in increasing order, each from the state the one before
\* left, and returns the state after the last block and nothing earlier.
C10_SequentialFold ==
    /\ [](ret.tag = "Ok" =>
            /\ k = Len(blocks) + 1
            /\ ret.hash = hash
            /\ ret.hash = SpFold(FixedInitialState, blocks, 1))
    /\ [][(pc = "fill" /\ pc' = "iter") => (hash' = FixedInitialState /\ k' = 1)]_vars
    /\ [][blocks' # blocks => pc \in {"pad", "fill"}]_vars
    /\ [][pc' = "pad" => pc \in {"start", "pad"}]_vars
    /\ [][(pc = "iter" /\ pc' = "round") =>
            /\ k \in 1..Len(blocks)
            /\ i' = 0
            /\ <<wv'.a, wv'.b, wv'.c, wv'.d, wv'.e, wv'.f, wv'.g, wv'.h>> = hash]_vars
    /\ [][(pc = "round" /\ i < 16 /\ i' = i + 1) => w'[i + 1] = blocks[k][i + 1]]_vars
    /\ [][k' # k => ((pc = "fill" /\ k' = 1) \/ (pc = "round" /\ i = 64 /\ k' = k + 1))]_vars
    /\ [][hash' # hash => (pc = "fill" \/ (pc = "round" /\ i = 64))]_vars

\* A three-block input has been hashed to the end.
C10_ThreeBlocksReturned == pc = "done" /\ Len(blocks) = 3 /\ ret.tag = "Ok"

====
